---- MODULE Spec2Model ----
(***************************************************************************)
(* A model of ucsrename: main/run (src/main.go), Renamer.Run and its       *)
(* prompt protocol (src/renamer/renamer.go) and the ucs package            *)
(* (Categories, Filename.Render).                                          *)
(*                                                                         *)
(* Strings are sequences of one-character strings, so that trimming,       *)
(* splitting, joining and scanning are computed character by character.    *)
(***************************************************************************)
EXTENDS Integers, Sequences, FiniteSets, TLC

\* ------------------------------------------------------------------ bounds
\* The most complete lines that may sit unread in the input source.
MaxPending == 2
\* The most lines the operator (or the writer of a pipe) supplies in one run.
MaxTyped == 4
\* The most characters of a line entered at a prompt whose normalization is
\* checked on its own.
MaxLineLen == 4
\* The most rows of a data file whose categories are checked on their own.
MaxRows == 4

\* ----------------------------------------------------------------- strings
NL == "\n"
SP == " "
US == "_"

\* unicode.IsSpace over the model's characters.
isSpace(c) == c \in {SP, NL, "\t"}

\* strings.ToLower on one character of the model's alphabet.
toLowerChar(c) ==
  CASE c = "Y" -> "y"
    [] c = "E" -> "e"
    [] c = "S" -> "s"
    [] c = "N" -> "n"
    [] c = "O" -> "o"
    [] OTHER -> c

ToLower(s) == [i \in 1..Len(s) |-> toLowerChar(s[i])]

Contains(s, c) == \E i \in 1..Len(s) : s[i] = c

RECURSIVE TrimLeft(_)
TrimLeft(s) ==
  IF s # <<>> /\ isSpace(s[1]) THEN TrimLeft(Tail(s)) ELSE s

RECURSIVE TrimRightSpace(_)
TrimRightSpace(s) ==
  IF s # <<>> /\ isSpace(s[Len(s)])
  THEN TrimRightSpace(SubSeq(s, 1, Len(s) - 1))
  ELSE s

\* strings.TrimSpace
TrimSpace(s) == TrimRightSpace(TrimLeft(s))

\* strings.TrimRight(s, cutset) for a one-character cutset.
RECURSIVE TrimRight(_, _)
TrimRight(s, c) ==
  IF s # <<>> /\ s[Len(s)] = c
  THEN TrimRight(SubSeq(s, 1, Len(s) - 1), c)
  ELSE s

\* The index of the first c in s, 0 when there is none.
RECURSIVE IndexFrom(_, _, _)
IndexFrom(s, c, i) ==
  IF i > Len(s) THEN 0
  ELSE IF s[i] = c THEN i
  ELSE IndexFrom(s, c, i + 1)

IndexByte(s, c) == IndexFrom(s, c, 1)

\* strings.Split(s, sep) for a one-character separator.
RECURSIVE Split(_, _)
Split(s, c) ==
  LET i == IndexByte(s, c) IN
  IF i = 0 THEN <<s>>
  ELSE <<SubSeq(s, 1, i - 1)>> \o Split(SubSeq(s, i + 1, Len(s)), c)

\* strings.Fields: the maximal runs of non-space characters.
RECURSIVE FieldsAcc(_, _)
FieldsAcc(s, cur) ==
  IF s = <<>> THEN (IF cur = <<>> THEN <<>> ELSE <<cur>>)
  ELSE IF isSpace(s[1])
       THEN (IF cur = <<>> THEN <<>> ELSE <<cur>>) \o FieldsAcc(Tail(s), <<>>)
       ELSE FieldsAcc(Tail(s), Append(cur, s[1]))

Fields(s) == FieldsAcc(s, <<>>)

\* strings.Join(elems, sep)
RECURSIVE Join(_, _)
Join(elems, sep) ==
  IF elems = <<>> THEN <<>>
  ELSE IF Len(elems) = 1 THEN elems[1]
  ELSE elems[1] \o sep \o Join(Tail(elems), sep)

\* The order of the model's characters (byte order of the ASCII codes).
Alphabet ==
  <<"\t", NL, SP, "-", ".", ":", "=", "A", "B", "E", "N", "O", "S", "Y", "Z",
    US, "a", "b", "c", "d", "e", "f", "h", "n", "o", "s", "t", "u", "w", "x",
    "y">>

Code(c) == CHOOSE i \in 1..Len(Alphabet) : Alphabet[i] = c

\* Go's < on strings: bytewise lexicographic order.
RECURSIVE StrLess(_, _)
StrLess(s, t) ==
  IF t = <<>> THEN FALSE
  ELSE IF s = <<>> THEN TRUE
  ELSE IF s[1] = t[1] THEN StrLess(Tail(s), Tail(t))
  ELSE Code(s[1]) < Code(t[1])

\* --------------------------------------------------------------- package ucs
\* Filename.Render as it would be with the conditional append left out.
RenderAlwaysUserData(f, ext) ==
  Join(<<f.CatID, f.FXName, f.CreatorID, f.SourceID, f.UserData>>, <<US>>) \o ext

\* Filename.Render
Render(f, ext) ==
  LET segs == <<f.CatID, f.FXName, f.CreatorID, f.SourceID>>
      all == IF f.UserData # <<>> THEN Append(segs, f.UserData) ELSE segs
  IN Join(all, <<US>>) \o ext

\* The rows of the data file a run of the program uses: two rows of six
\* fields, out of CatID order.
CsvRecords ==
  << <<<<"c">>, <<"s">>, <<"B">>, <<"b">>, <<>>, <<"y">> >>,
     <<<<"c">>, <<"d">>, <<"A">>, <<"a">>, <<>>, <<"x">> >> >>

Category(r) ==
  [Category |-> r[1], SubCategory |-> r[2], CatID |-> r[3],
   CatShort |-> r[4], Synonyms |-> r[6]]

\* The comparison function handed to slices.SortFunc.
cmpCatID(a, b) == IF StrLess(a.CatID, b.CatID) THEN -1 ELSE 1

\* One pass of the insertion sort slices.SortFunc runs on short slices:
\* the element at j moves left while it compares below its left neighbour.
RECURSIVE sinkLeft(_, _)
sinkLeft(list, j) ==
  IF j > 1 /\ cmpCatID(list[j], list[j - 1]) < 0
  THEN sinkLeft([list EXCEPT ![j] = list[j - 1], ![j - 1] = list[j]], j - 1)
  ELSE list

RECURSIVE insertionSort(_, _)
insertionSort(list, i) ==
  IF i > Len(list) THEN list ELSE insertionSort(sinkLeft(list, i), i + 1)

SortFunc(list) == insertionSort(list, 2)

RECURSIVE sixFieldRows(_)
sixFieldRows(rows) ==
  IF rows = <<>> THEN <<>>
  ELSE (IF Len(rows[1]) = 6 THEN <<Category(rows[1])>> ELSE <<>>)
       \o sixFieldRows(Tail(rows))

\* csv.Reader.ReadAll's check of the field counts: Categories leaves the
\* reader's FieldsPerRecord at 0, so the first record sets the count and a
\* later record of any other count ends the read with ErrFieldCount.
fieldCountError(rows) == \E i \in 2..Len(rows) : Len(rows[i]) # Len(rows[1])

\* The error ucs.Categories returns for a data file of these rows; csvOk is
\* whether the file could be opened and read to its end.
categoriesErr(rows, csvOk) ==
  IF ~csvOk THEN "csv"
  ELSE IF fieldCountError(rows) THEN "ErrFieldCount"
  ELSE "nil"

\* The list ucs.Categories returns when it returns no error.
Categories(rows) == SortFunc(sixFieldRows(rows))

\* ------------------------------------------------------- flag.FlagSet.Parse
\* strconv.ParseBool over the values the model's arguments carry.
ParseBool(v) ==
  IF v \in {<<"t">>, <<"1">>} THEN [ok |-> TRUE, val |-> TRUE]
  ELSE IF v \in {<<"f">>, <<"0">>} THEN [ok |-> TRUE, val |-> FALSE]
  ELSE [ok |-> FALSE, val |-> FALSE]

\* The index of the "=" that splits name=value (it cannot be first), or 0.
equalsAt(name) == IndexFrom(name, "=", 2)

\* FlagSet.parseOne on the argument s for a flag set that defines only the
\* boolean flag "y": what kind of argument it is and the value it sets.
parseOne(s) ==
  IF Len(s) < 2 \/ s[1] # "-" THEN [kind |-> "positional", val |-> FALSE]
  ELSE IF s = <<"-", "-">> THEN [kind |-> "terminator", val |-> FALSE]
  ELSE
    LET numMinuses == IF s[2] = "-" THEN 2 ELSE 1
        full == SubSeq(s, numMinuses + 1, Len(s))
        eq == equalsAt(full)
        name == IF eq = 0 THEN full ELSE SubSeq(full, 1, eq - 1)
        value == IF eq = 0 THEN <<>> ELSE SubSeq(full, eq + 1, Len(full))
    IN IF full = <<>> \/ full[1] \in {"-", "="}
       THEN [kind |-> "parse", val |-> FALSE]
       ELSE IF name # <<"y">>
       THEN (IF name \in {<<"h">>, <<"h", "e", "l", "p">>}
             THEN [kind |-> "ErrHelp", val |-> FALSE]
             ELSE [kind |-> "parse", val |-> FALSE])
       ELSE IF eq = 0 THEN [kind |-> "flag", val |-> TRUE]
       ELSE IF ParseBool(value).ok
            THEN [kind |-> "flag", val |-> ParseBool(value).val]
            ELSE [kind |-> "parse", val |-> FALSE]

\* FlagSet.Parse under flag.ContinueOnError: the error (or "nil"), the value
\* of -y and the arguments left after the flags.
RECURSIVE ParseFrom(_, _)
ParseFrom(rest, force) ==
  IF rest = <<>> THEN [err |-> "nil", forceConfirm |-> force, rest |-> <<>>]
  ELSE LET one == parseOne(rest[1]) IN
    CASE one.kind = "positional" ->
           [err |-> "nil", forceConfirm |-> force, rest |-> rest]
      [] one.kind = "terminator" ->
           [err |-> "nil", forceConfirm |-> force, rest |-> Tail(rest)]
      [] one.kind = "flag" -> ParseFrom(Tail(rest), one.val)
      [] OTHER -> [err |-> one.kind, forceConfirm |-> force, rest |-> rest]

Parse(arguments) == ParseFrom(arguments, FALSE)

\* filepath.Ext: the suffix from the last dot of the path, "" without one.
RECURSIVE ExtFrom(_, _)
ExtFrom(path, i) ==
  IF i < 1 \/ path[i] = "/" THEN <<>>
  ELSE IF path[i] = "." THEN SubSeq(path, i, Len(path))
  ELSE ExtFrom(path, i - 1)

Ext(path) == ExtFrom(path, Len(path))

\* ------------------------------------------------------------ the inputs
\* Command lines (os.Args[1:]).
ArgLists ==
  { <<>>,
    << <<"a", ".", "w">> >>,
    << <<"a">> >>,
    << <<"-", "y">>, <<"a", ".", "w">> >>,
    << <<"-", "-", "y", "=", "f">>, <<"a", ".", "w">> >>,
    << <<"-", "y", "=", "x">>, <<"a", ".", "w">> >>,
    << <<"-", "x">>, <<"a", ".", "w">> >>,
    << <<"-", "h">> >>,
    << <<"-", "-">>, <<"a", ".", "w">> >> }

EnvVars == {"UCS_CAT_ID", "UCS_CREATOR_ID", "UCS_SOURCE_ID", "UCS_USER_DATA"}

\* The overrides of the three prompted fields a run may start with; <<>> is
\* unset (or set to ""). Each is set in two of the four and unset in two.
FieldOverrides ==
  { <<<<>>, <<>>, <<>>>>,
    <<<<SP, "c", US>>, <<>>, <<>>>>,
    <<<<>>, <<"s">>, <<"u">>>>,
    <<<<SP, "c", US>>, <<"s">>, <<"u">>>> }

\* The environments a run may start in: UCS_CAT_ID unset, naming a category
\* of the data file, or naming none.
Environs ==
  { [v \in EnvVars |->
       CASE v = "UCS_CAT_ID" -> c
         [] v = "UCS_CREATOR_ID" -> o[1]
         [] v = "UCS_SOURCE_ID" -> o[2]
         [] v = "UCS_USER_DATA" -> o[3]] :
      c \in {<<>>, <<"A">>, <<"Z">>}, o \in FieldOverrides }

\* The lines an operator may enter, each with its terminator.
Lines ==
  { <<NL>>,
    <<SP, "a", SP, SP, "b", SP, NL>>,
    <<"a", US, NL>>,
    <<"Y", "e", "s", NL>> }

\* What is left of a last line when the input ends without a terminator.
PartialLines == {<<>>, <<"y">>}

\* ------------------------------------------------------------- the state
VARIABLES
  args,         \* os.Args[1:], then the arguments fs.Parse left (fs.Args())
  isTTY,        \* isatty.IsTerminal(os.Stdout.Fd())
  environ,      \* the process environment
  records,      \* the rows of the data file in use, split into fields
  stdin,        \* the characters of the input source not yet read
  eof,          \* the input source has been closed
  typed,        \* lines supplied to the input source so far
  pc,           \* the program's position
  forceConfirm, \* the -y flag
  filename,     \* the positional argument
  ext,          \* filepath.Ext of the source file
  f,            \* the ucs.Filename under construction
  origin,       \* where each field of f came from
  field,        \* the index of the field promptFields is collecting
  newName,      \* f.Render(ext)
  confirm,      \* the answer confirm scanned
  err,          \* the error run returns
  exitCode,     \* the process exit status, -1 while running
  stdout,       \* what was written to Stdout
  stderr,       \* what was written to Stderr
  reads,        \* reads completed on the input source
  selectorRuns, \* times the selector process was started
  renames       \* calls of os.Rename

vars ==
  <<args, isTTY, environ, records, stdin, eof, typed, pc, forceConfirm,
    filename, ext,
    f, origin, field, newName, confirm, err, exitCode, stdout, stderr,
    reads, selectorRuns, renames>>

inputVars == <<args, isTTY, environ, records>>
sourceVars == <<stdin, eof, typed>>

NoFilename ==
  [CatID |-> <<>>, FXName |-> <<>>, CreatorID |-> <<>>, SourceID |-> <<>>,
   UserData |-> <<>>]

FieldNames == <<"FXName", "CreatorID", "SourceID", "UserData">>

\* The requirement promptFields passes for each field.
required(i) == i \in {1, 2, 3}

\* The override variable promptFields passes for each field ("" for none).
envOverrideVar(i) ==
  <<"", "UCS_CREATOR_ID", "UCS_SOURCE_ID", "UCS_USER_DATA">>[i]

Getenv(name) == environ[name]

Init ==
  /\ args \in ArgLists
  /\ isTTY \in BOOLEAN
  /\ environ \in Environs
  /\ records = CsvRecords
  /\ stdin = <<>>
  /\ eof = FALSE
  /\ typed = 0
  /\ pc = "main"
  /\ forceConfirm = FALSE
  /\ filename = <<>>
  /\ ext = <<>>
  /\ f = NoFilename
  /\ origin = [n \in {"CatID"} \cup {FieldNames[i] : i \in 1..4} |-> "none"]
  /\ field = 0
  /\ newName = <<>>
  /\ confirm = <<>>
  /\ err = "nil"
  /\ exitCode = -1
  /\ stdout = <<>>
  /\ stderr = <<>>
  /\ reads = 0
  /\ selectorRuns = 0
  /\ renames = 0

\* ------------------------------------------------------------ the source
\* The positions from promptField's first prompt to confirm's scan: the
\* program reads the source nowhere else, and input that arrives earlier is
\* input waiting at the first of them.
Reading == {"enter", "prompt", "read", "render", "confirm"}

NumLines(s) == Cardinality({i \in 1..Len(s) : s[i] = NL})

\* A complete line arrives at the input source (typed at a terminal ahead of
\* the program or not, or written to a pipe).
TypeLine ==
  /\ pc \in Reading
  /\ ~eof
  /\ typed < MaxTyped
  /\ NumLines(stdin) < MaxPending
  /\ \E l \in Lines : stdin' = stdin \o l
  /\ typed' = typed + 1
  /\ UNCHANGED <<inputVars, eof, pc, forceConfirm, filename, ext, f, origin,
                 field, newName, confirm, err, exitCode, stdout, stderr, reads,
                 selectorRuns, renames>>

\* The input source is closed, possibly after an unterminated last line.
CloseInput ==
  /\ pc \in Reading
  /\ ~eof
  /\ \E l \in PartialLines : stdin' = stdin \o l
  /\ eof' = TRUE
  /\ UNCHANGED <<inputVars, typed, pc, forceConfirm, filename, ext, f, origin,
                 field, newName, confirm, err, exitCode, stdout, stderr, reads,
                 selectorRuns, renames>>

\* ------------------------------------------------------------- main.go
\* printCategories' line for one category.
categoryLine(c) ==
  c.CatID \o <<":", SP>> \o c.Category \o <<SP>> \o c.SubCategory
    \o <<SP, "-", "-", SP>> \o c.Synonyms \o <<NL>>

categoryLines(list) == [i \in 1..Len(list) |-> <<"category", categoryLine(list[i])>>]

\* run, up to its call of Renamer.Run.
MainRun ==
  /\ pc = "main"
  /\ UNCHANGED <<isTTY, environ, records, sourceVars, ext, f, origin, field,
                 newName, confirm, exitCode, reads, selectorRuns, renames>>
  /\ args' = IF isTTY THEN Parse(args).rest ELSE args
  /\ IF ~isTTY
     THEN \* printCategories
          /\ \E csvOk \in BOOLEAN :
               /\ err' = categoriesErr(records, csvOk)
               /\ stdout' = IF categoriesErr(records, csvOk) = "nil"
                            THEN stdout \o categoryLines(Categories(records))
                            ELSE stdout
          /\ pc' = "returned"
          /\ UNCHANGED <<forceConfirm, filename, stderr>>
     ELSE LET parsed == Parse(args)
              name == IF parsed.rest = <<>> THEN <<>> ELSE parsed.rest[1]
          IN
          IF parsed.err # "nil"
          THEN /\ err' = parsed.err
               /\ stderr' = stderr \o
                    (IF parsed.err = "ErrHelp" THEN << <<"usage", <<>>>> >>
                     ELSE << <<"flag error", <<>>>>, <<"usage", <<>>>> >>)
               /\ pc' = "returned"
               /\ UNCHANGED <<forceConfirm, filename, stdout>>
          ELSE IF name = <<>>
          THEN /\ err' = "nil"
               /\ stderr' = Append(stderr, <<"usage", <<>>>>)
               /\ forceConfirm' = parsed.forceConfirm
               /\ pc' = "returned"
               /\ UNCHANGED <<filename, stdout>>
          ELSE /\ forceConfirm' = parsed.forceConfirm
               /\ filename' = name
               /\ \E fzfFound \in BOOLEAN :
                    IF fzfFound
                    THEN pc' = "Run" /\ err' = err
                    ELSE pc' = "returned" /\ err' = "lookpath"
               /\ UNCHANGED <<stdout, stderr>>

\* main's mapping as it would be if every flag parse error exited 2.
exitStatusAnyParseError(e) ==
  IF e = "nil" THEN 0 ELSE IF e \in {"ErrHelp", "parse"} THEN 2 ELSE 1

\* main's mapping of run's error to the process exit status.
exitStatus(e) ==
  IF e = "nil" THEN 0 ELSE IF e = "ErrHelp" THEN 2 ELSE 1

\* main, once run has returned.
MainExit ==
  /\ pc = "returned"
  /\ exitCode' = exitStatus(err)
  /\ stderr' = IF exitStatus(err) = 1
               THEN Append(stderr, <<"error", <<>>>>)
               ELSE stderr
  /\ pc' = "exited"
  /\ UNCHANGED <<inputVars, sourceVars, forceConfirm, filename, ext, f, origin,
                 field, newName, confirm, err, stdout, reads, selectorRuns,
                 renames>>

\* ---------------------------------------------------- renamer/renamer.go
\* The outcomes of os.Stat on the source file.
StatKinds == {"missing", "dir", "file"}

\* Renamer.Run, up to its call of buildFilename.
RunStat ==
  /\ pc = "Run"
  /\ \E kind \in StatKinds :
       IF kind = "missing" THEN err' = "stat" /\ pc' = "returned" /\ ext' = ext
       ELSE IF kind = "dir" THEN err' = "isdir" /\ pc' = "returned" /\ ext' = ext
       ELSE IF Ext(filename) = <<>>
       THEN err' = "noext" /\ pc' = "returned" /\ ext' = Ext(filename)
       ELSE err' = err /\ pc' = "buildFilename" /\ ext' = Ext(filename)
  /\ UNCHANGED <<inputVars, sourceVars, forceConfirm, filename, f, origin,
                 field, newName, confirm, exitCode, stdout, stderr, reads,
                 selectorRuns, renames>>

\* validateCatID as it would be if it accepted every identifier.
validateCatIDAcceptAll(catID, csvOk) ==
  IF ~csvOk THEN "csv" ELSE "nil"

\* validateCatID: csvOk is whether ucs.Categories could read the data file.
validateCatID(catID, csvOk) ==
  IF categoriesErr(records, csvOk) # "nil" THEN categoriesErr(records, csvOk)
  ELSE LET categories == Categories(records) IN
       IF \E i \in 1..Len(categories) : categories[i].CatID = catID
       THEN "nil"
       ELSE "unknownCatID"

\* What running the selector can yield: its process error ("exit" for an
\* exec.ExitError, "start" for any other) and what it wrote to its output.
SelectorOutcomes ==
  { [err |-> "exit", out |-> <<>>], [err |-> "start", out |-> <<>>],
    [err |-> "nil", out |-> <<>>] }
  \cup { [err |-> "nil", out |-> categoryLine(Categories(records)[i])] :
           i \in 1..Len(Categories(records)) }

\* buildFilename's reading of the selector's output.
choiceCatID(out) ==
  LET choice == TrimSpace(out)
      choiceSegs == Split(choice, SP)
  IN TrimRight(choiceSegs[1], ":")

\* buildFilename, with the head of promptFields (the CatID line).
BuildFilename ==
  /\ pc = "buildFilename"
  /\ UNCHANGED <<inputVars, sourceVars, forceConfirm, filename, ext, newName,
                 confirm, exitCode, stderr, reads, renames>>
  /\ IF Getenv("UCS_CAT_ID") # <<>>
     THEN \E csvOk \in BOOLEAN :
            LET catID == Getenv("UCS_CAT_ID")
                verr == validateCatID(catID, csvOk)
            IN /\ selectorRuns' = selectorRuns
               /\ IF verr # "nil"
                  THEN /\ err' = verr
                       /\ pc' = "returned"
                       /\ UNCHANGED <<f, origin, field, stdout>>
                  ELSE /\ f' = [NoFilename EXCEPT !.CatID = catID]
                       /\ origin' = [origin EXCEPT !["CatID"] = "env"]
                       /\ stdout' = Append(stdout, <<"CatID: ", catID>>)
                       /\ field' = 1
                       /\ pc' = "enter"
                       /\ err' = err
     ELSE \E o \in SelectorOutcomes :
            /\ selectorRuns' = selectorRuns + 1
            /\ IF o.err = "exit"
               THEN /\ err' = "selector"
                    /\ pc' = "returned"
                    /\ UNCHANGED <<f, origin, field, stdout>>
               ELSE LET catID == choiceCatID(o.out) IN
                    /\ f' = [NoFilename EXCEPT !.CatID = catID]
                    /\ origin' = [origin EXCEPT !["CatID"] = "selector"]
                    /\ stdout' = Append(stdout, <<"CatID: ", catID>>)
                    /\ field' = 1
                    /\ pc' = "enter"
                    /\ err' = err

\* promptField's override as it would be if the value were trimmed.
overrideValueTrimmed(name) ==
  IF name # "" THEN TrimSpace(Getenv(name)) ELSE <<>>

\* promptField's override: the value returned without prompting, "" when
\* the field has no override or it is unset or empty.
overrideValue(name) ==
  IF name # "" THEN Getenv(name) ELSE <<>>

\* promptFields' check of a required field's value, and what follows it:
\* the next field, the end of promptFields, or the "is required" error.
afterField(i, val) ==
  IF required(i) /\ val = <<>>
  THEN [pc |-> "returned", err |-> "required", field |-> i]
  ELSE IF i < 4
  THEN [pc |-> "enter", err |-> "nil", field |-> i + 1]
  ELSE [pc |-> "render", err |-> "nil", field |-> i]

\* promptField, before its loop: the environment override.
PromptEnter ==
  /\ pc = "enter"
  /\ LET val == overrideValue(envOverrideVar(field))
         nxt == afterField(field, val)
     IN IF val # <<>>
        THEN /\ f' = [f EXCEPT ![FieldNames[field]] = val]
             /\ origin' = [origin EXCEPT ![FieldNames[field]] = "env"]
             /\ pc' = nxt.pc
             /\ err' = nxt.err
             /\ field' = nxt.field
        ELSE /\ pc' = "prompt"
             /\ UNCHANGED <<f, origin, err, field>>
  /\ UNCHANGED <<inputVars, sourceVars, forceConfirm, filename, ext, newName,
                 confirm, exitCode, stdout, stderr, reads, selectorRuns,
                 renames>>

\* promptField's loop, the prompt it writes before it reads.
PromptWrite ==
  /\ pc = "prompt"
  /\ stdout' = Append(stdout, <<FieldNames[field], <<>>>>)
  /\ pc' = "read"
  /\ UNCHANGED <<inputVars, sourceVars, forceConfirm, filename, ext, f, origin,
                 field, newName, confirm, err, exitCode, stderr, reads,
                 selectorRuns, renames>>

\* The loop body as it would be without the delimiter check.
iterationNoDelimiter(req, text, readErr) ==
  LET trimmed == TrimSpace(text) IN
  IF readErr
  THEN [outcome |-> "fail", val |-> <<>>, complaint |-> ""]
  ELSE IF req /\ trimmed = <<>>
  THEN [outcome |-> "again", val |-> <<>>, complaint |-> "required"]
  ELSE [outcome |-> "return", val |-> Join(Fields(trimmed), <<"-">>),
        complaint |-> ""]

\* The loop body as it would be without the required check.
iterationNoRequired(req, text, readErr) ==
  LET trimmed == TrimSpace(text) IN
  IF readErr
  THEN [outcome |-> "fail", val |-> <<>>, complaint |-> ""]
  ELSE IF Contains(trimmed, US)
  THEN [outcome |-> "again", val |-> <<>>, complaint |-> "delimiter"]
  ELSE [outcome |-> "return", val |-> Join(Fields(trimmed), <<"-">>),
        complaint |-> ""]

\* The loop body as it would be if it took what was read despite the read
\* error.
iterationIgnoreError(req, text, readErr) ==
  LET trimmed == TrimSpace(text) IN
  IF req /\ trimmed = <<>>
  THEN [outcome |-> "again", val |-> <<>>, complaint |-> "required"]
  ELSE IF Contains(trimmed, US)
  THEN [outcome |-> "again", val |-> <<>>, complaint |-> "delimiter"]
  ELSE [outcome |-> "return", val |-> Join(Fields(trimmed), <<"-">>),
        complaint |-> ""]

\* The loop body as it would be if every whitespace character became a hyphen
\* of its own.
iterationNoCollapse(req, text, readErr) ==
  LET trimmed == TrimSpace(text) IN
  IF readErr
  THEN [outcome |-> "fail", val |-> <<>>, complaint |-> ""]
  ELSE IF req /\ trimmed = <<>>
  THEN [outcome |-> "again", val |-> <<>>, complaint |-> "required"]
  ELSE IF Contains(trimmed, US)
  THEN [outcome |-> "again", val |-> <<>>, complaint |-> "delimiter"]
  ELSE [outcome |-> "return",
        val |-> [i \in 1..Len(trimmed) |->
                   IF isSpace(trimmed[i]) THEN "-" ELSE trimmed[i]],
        complaint |-> ""]

\* One iteration of promptField's loop after its read: text and readErr are
\* what ReadString returned. It fails with the read error, complains and
\* goes round again, or returns the normalized value.
iteration(req, text, readErr) ==
  LET trimmed == TrimSpace(text) IN
  IF readErr
  THEN [outcome |-> "fail", val |-> <<>>, complaint |-> ""]
  ELSE IF req /\ trimmed = <<>>
  THEN [outcome |-> "again", val |-> <<>>, complaint |-> "required"]
  ELSE IF Contains(trimmed, US)
  THEN [outcome |-> "again", val |-> <<>>, complaint |-> "delimiter"]
  ELSE [outcome |-> "return", val |-> Join(Fields(trimmed), <<"-">>),
        complaint |-> ""]

\* bufio.Reader.ReadString('\n') on a source holding src: the text up to and
\* with the first terminator, or, when the source ends before one, what is
\* left and the error io.EOF.
ReadString(src) ==
  IF Contains(src, NL)
  THEN [text |-> SubSeq(src, 1, IndexByte(src, NL)), readErr |-> FALSE]
  ELSE [text |-> src, readErr |-> TRUE]

\* The positions up to which the bufio.Reader made for one ReadString may
\* have drained the source: the end of the line returned, or of any later
\* complete line (or of the pending input) that the same reads of the source
\* returned with it. What the reader holds beyond the line is dropped with
\* the reader.
drainPoints(src) ==
  IF ~Contains(src, NL) THEN {Len(src)}
  ELSE {k \in IndexByte(src, NL)..Len(src) : k = Len(src) \/ src[k] = NL}

\* promptField's loop, from its read to the end of the iteration, and
\* promptFields' handling of the value returned.
PromptRead ==
  /\ pc = "read"
  /\ Contains(stdin, NL) \/ eof
  /\ \E k \in drainPoints(stdin) :
       LET got == ReadString(stdin)
           res == iteration(required(field), got.text, got.readErr)
           nxt == afterField(field, res.val)
       IN /\ stdin' = SubSeq(stdin, k + 1, Len(stdin))
          /\ CASE res.outcome = "fail" ->
                    /\ err' = "EOF"
                    /\ pc' = "returned"
                    /\ UNCHANGED <<f, origin, field, stderr>>
               [] res.outcome = "again" ->
                    /\ stderr' = Append(stderr, <<res.complaint, <<>>>>)
                    /\ pc' = "prompt"
                    /\ UNCHANGED <<f, origin, err, field>>
               [] OTHER ->
                    /\ f' = [f EXCEPT ![FieldNames[field]] = res.val]
                    /\ origin' = [origin EXCEPT ![FieldNames[field]] = "prompt"]
                    /\ pc' = nxt.pc
                    /\ err' = nxt.err
                    /\ field' = nxt.field
                    /\ stderr' = stderr
  /\ reads' = reads + 1
  /\ UNCHANGED <<inputVars, eof, typed, forceConfirm, filename, ext, newName,
                 confirm, exitCode, stdout, selectorRuns, renames>>

\* fmt.Fscanf(r.Stdin, "%s", &confirm) on a source holding src, closed or
\* not: whether the scan can finish on what is there, the token it stores
\* ("" when it fails on a newline or on the end of input) and how many
\* characters it took from the source, read one at a time.
Fscanf(src, closed) ==
  LET blanks == {i \in 1..Len(src) : \A j \in 1..i : src[j] \in {SP, "\t"}}
      start == Cardinality(blanks) + 1
      ends == {j \in start..Len(src) : isSpace(src[j])}
      stop == IF ends = {} THEN 0
              ELSE CHOOSE j \in ends : \A j2 \in ends : j <= j2
  IN IF start > Len(src)
     THEN [ready |-> closed, token |-> <<>>, taken |-> Len(src)]
     ELSE IF src[start] = NL
     THEN [ready |-> TRUE, token |-> <<>>, taken |-> start]
     ELSE IF stop = 0
     THEN [ready |-> closed, token |-> SubSeq(src, start, Len(src)),
           taken |-> Len(src)]
     ELSE [ready |-> TRUE, token |-> SubSeq(src, start, stop - 1),
           taken |-> stop]

\* confirm's switch as it would be without strings.ToLower.
confirmedCaseSensitive(answer) ==
  answer \in {<<"y">>, <<"y", "e", "s">>}

\* confirm's switch: whether the answer calls yes().
confirmed(answer) ==
  ToLower(answer) \in {<<"y">>, <<"y", "e", "s">>}

\* Renamer.Run from Render on: the forced rename, or confirm's question.
RenderStep ==
  /\ pc = "render"
  /\ newName' = Render(f, ext)
  /\ IF forceConfirm
     THEN /\ \E renamed \in BOOLEAN :
               err' = IF renamed THEN "nil" ELSE "rename"
          /\ renames' = renames + 1
          /\ pc' = "returned"
          /\ stdout' = stdout
     ELSE /\ stdout' = Append(stdout, <<"Rename? (y/n) ", Render(f, ext)>>)
          /\ pc' = "confirm"
          /\ UNCHANGED <<err, renames>>
  /\ UNCHANGED <<inputVars, sourceVars, forceConfirm, filename, ext, f, origin,
                 field, confirm, exitCode, stderr, reads, selectorRuns>>

\* confirm, from its scan of the answer on.
Confirm ==
  /\ pc = "confirm"
  /\ LET got == Fscanf(stdin, eof) IN
       /\ got.ready
       /\ stdin' = SubSeq(stdin, got.taken + 1, Len(stdin))
       /\ confirm' = got.token
       /\ IF confirmed(got.token)
          THEN /\ \E renamed \in BOOLEAN :
                    err' = IF renamed THEN "nil" ELSE "rename"
               /\ renames' = renames + 1
          ELSE UNCHANGED <<err, renames>>
  /\ reads' = reads + 1
  /\ pc' = "returned"
  /\ UNCHANGED <<inputVars, eof, typed, forceConfirm, filename, ext, f, origin,
                 field, newName, exitCode, stdout, stderr, selectorRuns>>

Next ==
  \/ TypeLine
  \/ CloseInput
  \/ MainRun
  \/ RunStat
  \/ BuildFilename
  \/ PromptEnter
  \/ PromptWrite
  \/ PromptRead
  \/ RenderStep
  \/ Confirm
  \/ MainExit

Spec == Init /\ [][Next]_vars

\* ------------------------------------------------- Filename.Render alone
\* The field values and extensions Render is applied to.
Segments == {<<>>, <<"a">>, <<"a", US>>}
Extensions == {<<".", "w">>, <<".", "a", US>>}

InitRender ==
  /\ args = <<>>
  /\ isTTY = TRUE
  /\ environ = [v \in EnvVars |-> <<>>]
  /\ records = CsvRecords
  /\ stdin = <<>>
  /\ eof = FALSE
  /\ typed = 0
  /\ pc = "render"
  /\ forceConfirm = FALSE
  /\ ext \in Extensions
  /\ filename = <<"a">> \o ext
  /\ f \in [CatID : Segments, FXName : Segments, CreatorID : Segments,
            SourceID : Segments, UserData : Segments]
  /\ origin = [n \in {"CatID"} \cup {FieldNames[i] : i \in 1..4} |-> "none"]
  /\ field = 4
  /\ newName = <<>>
  /\ confirm = <<>>
  /\ err = "nil"
  /\ exitCode = -1
  /\ stdout = <<>>
  /\ stderr = <<>>
  /\ reads = 0
  /\ selectorRuns = 0
  /\ renames = 0

SpecRender == InitRender /\ [][RenderStep]_vars

\* ------------------------------------------------------------ the claims
Done == pc \in {"returned", "exited"}

\* Render has run: its result always holds the three delimiters at least.
Rendered == newName # <<>>

\* The line the next ReadString returns, when one is complete.
FirstLine == SubSeq(stdin, 1, IndexByte(stdin, NL))

\* A step of the program (not of the input source) from the reading position.
ReadStep == pc = "read" /\ reads' = reads + 1

\* C1: Render(ext) is CatID, FXName, CreatorID, SourceID joined by "_" in
\* that order, then "_" and UserData only when UserData is not empty, then
\* ext as it is, with nothing between the body and ext.
C1_RenderLayout ==
  Rendered =>
    newName = f.CatID \o <<US>> \o f.FXName \o <<US>> \o f.CreatorID \o <<US>>
                \o f.SourceID
                \o (IF f.UserData = <<>> THEN <<>> ELSE <<US>> \o f.UserData)
                \o ext

C1_Witness ==
  /\ Rendered
  /\ f.UserData = <<>>
  /\ f.SourceID = <<"a">>
  /\ newName[Len(newName) - Len(ext)] = "a"

\* C2: whenever Run reaches Render the four required fields are not empty,
\* and a selector that returned no output never leads to promptFields with
\* an empty CatID.
C2_RequiredFieldsAtRender ==
  /\ pc = "render" =>
       /\ f.CatID # <<>>
       /\ f.FXName # <<>>
       /\ f.CreatorID # <<>>
       /\ f.SourceID # <<>>
  /\ origin["CatID"] = "selector" => f.CatID # <<>>

\* C3: the rendered name without its extension splits on "_" into 5
\* segments when UserData is not empty and into 4 when it is.
C3_SegmentCount ==
  Rendered =>
    Len(Split(SubSeq(newName, 1, Len(newName) - Len(ext)), US))
      = (IF f.UserData # <<>> THEN 5 ELSE 4)

\* C4: a line whose trimmed text holds "_" is never returned by the loop:
\* an error line is written and the loop goes back to its prompt, for
\* required and optional fields alike; so no value that came from the loop
\* holds "_".
C4_DelimiterRejected ==
  /\ [](\A i \in 1..4 :
          origin[FieldNames[i]] = "prompt" => ~Contains(f[FieldNames[i]], US))
  /\ [][(ReadStep /\ Contains(stdin, NL) /\ Contains(TrimSpace(FirstLine), US))
          => /\ f' = f
             /\ origin' = origin
             /\ Len(stderr') = Len(stderr) + 1
             /\ stdout' = stdout
             /\ field' = field
             /\ err' = "nil"
             /\ pc' = "prompt"]_vars

C4_Witness ==
  /\ pc = "read"
  /\ field = 4
  /\ stderr # <<>>
  /\ stderr[Len(stderr)][1] = "delimiter"
  /\ Len(stdout) >= 2
  /\ stdout[Len(stdout)][1] = "UserData"
  /\ stdout[Len(stdout) - 1][1] = "UserData"

\* The CatIDs of the data file's categories.
CatalogIDs ==
  {Categories(records)[i].CatID : i \in 1..Len(Categories(records))}

\* C5: with UCS_CAT_ID set to a value that is the CatID of no category of
\* the data file (read without error), buildFilename returns the unknown
\* CatID error with the selector not started, nothing prompted, nothing read
\* and nothing renamed; with a value that is one, it is the CatID and the
\* selector is never started.
C5_CatIDOverride ==
  /\ [](/\ err = "unknownCatID" =>
             /\ Done
             /\ selectorRuns = 0
             /\ stdout = <<>>
             /\ reads = 0
             /\ renames = 0
             /\ f = NoFilename
        /\ environ["UCS_CAT_ID"] # <<>> => selectorRuns = 0
        /\ origin["CatID"] = "env" =>
             /\ f.CatID = environ["UCS_CAT_ID"]
             /\ f.CatID \in CatalogIDs)
  /\ [][(pc = "buildFilename" /\ pc' # pc /\ environ["UCS_CAT_ID"] # <<>>
           /\ err' # "csv")
          => IF environ["UCS_CAT_ID"] \in CatalogIDs
             THEN /\ f'.CatID = environ["UCS_CAT_ID"]
                  /\ origin'["CatID"] = "env"
                  /\ pc' = "enter"
                  /\ err' = "nil"
             ELSE /\ err' = "unknownCatID"
                  /\ pc' = "returned"]_vars

C5_Witness ==
  /\ environ["UCS_CAT_ID"] = <<"Z">>
  /\ err = "unknownCatID"
  /\ pc = "exited"
  /\ exitCode = 1

\* A step of promptField from its entry, before the loop.
EnterStep == pc = "enter" /\ (pc' # pc \/ field' # field)

\* C6: a set and non-empty override of CreatorID, SourceID or UserData is
\* returned as it is (not trimmed, not normalized, not checked for "_"),
\* with no prompt written and no input read; FXName has none and is always
\* prompted; an unset or empty override goes on to the loop.
C6_OverrideVerbatim ==
  /\ [](/\ origin["FXName"] # "env"
        /\ origin["CreatorID"] = "env" =>
             f.CreatorID = environ["UCS_CREATOR_ID"] /\ f.CreatorID # <<>>
        /\ origin["SourceID"] = "env" =>
             f.SourceID = environ["UCS_SOURCE_ID"] /\ f.SourceID # <<>>
        /\ origin["UserData"] = "env" =>
             f.UserData = environ["UCS_USER_DATA"] /\ f.UserData # <<>>)
  /\ [][EnterStep =>
          LET name == envOverrideVar(field) IN
          IF name # "" /\ environ[name] # <<>>
          THEN /\ f' = [f EXCEPT ![FieldNames[field]] = environ[name]]
               /\ origin'[FieldNames[field]] = "env"
               /\ stdout' = stdout
               /\ stderr' = stderr
               /\ stdin' = stdin
               /\ reads' = reads
               /\ pc' \in {"enter", "render"}
          ELSE /\ pc' = "prompt"
               /\ field' = field
               /\ f' = f]_vars

C6_Witness ==
  /\ origin["CreatorID"] = "env"
  /\ f.CreatorID = <<SP, "c", US>>
  /\ origin["FXName"] = "prompt"
  /\ origin["SourceID"] = "prompt"
  /\ pc = "prompt"
  /\ field = 4
  /\ reads = 2

\* C7: in the loop an empty line (after trimming) for a required field is
\* never accepted and never ends the run: an error line is written and the
\* loop goes back to its prompt, so promptFields never returns the
\* "<field> is required" error; for the optional UserData an empty line is
\* accepted and gives the empty value.
C7_RequiredReprompt ==
  /\ [](err # "required")
  /\ [][(ReadStep /\ Contains(stdin, NL) /\ TrimSpace(FirstLine) = <<>>)
          => IF field \in {1, 2, 3}
             THEN /\ pc' = "prompt"
                  /\ field' = field
                  /\ f' = f
                  /\ err' = "nil"
                  /\ stderr' = Append(stderr, <<"required", <<>>>>)
             ELSE /\ pc' = "render"
                  /\ f' = [f EXCEPT !.UserData = <<>>]
                  /\ origin'["UserData"] = "prompt"
                  /\ err' = "nil"
                  /\ stderr' = stderr]_vars

C7_Witness ==
  /\ \E i \in 1..Len(stderr) : stderr[i][1] = "required"
  /\ origin["UserData"] = "prompt"
  /\ f.UserData = <<>>
  /\ pc = "render"

\* C8: when the source ends before a terminated line is there (an
\* unterminated last line included), promptField returns the read error at
\* once: no value is taken, nothing more is prompted, Run returns the error
\* and nothing is renamed.
C8_EndOfInput ==
  /\ [](err = "EOF" =>
          /\ Done
          /\ renames = 0
          /\ ~Rendered
          /\ stdout[Len(stdout)][1] = FieldNames[field]
          /\ f[FieldNames[field]] = <<>>
          /\ exitCode \in {-1, 1})
  /\ [][(ReadStep /\ ~Contains(stdin, NL))
          => /\ err' = "EOF"
             /\ pc' = "returned"
             /\ f' = f
             /\ field' = field
             /\ stdout' = stdout
             /\ stderr' = stderr]_vars

C8_Witness ==
  /\ err = "EOF"
  /\ pc = "exited"
  /\ exitCode = 1
  /\ field = 2
  /\ typed = 1
  /\ reads = 2

YesAnswers == {<<"y">>, <<"y", "e", "s">>}

ConfirmPrompts == {i \in 1..Len(stdout) : stdout[i][1] = "Rename? (y/n) "}

\* C9: the rename is attempted at most once and only as the last step of
\* Run; it is attempted exactly when the source is a file with an extension,
\* every field was collected and -y was given or the answer is y or yes in
\* any case; on any other answer, or none, Run returns no error, renames
\* nothing and asks only once.
C9_RenameOnce ==
  /\ [](/\ renames <= 1
        /\ renames = 1 => Done
        /\ Done =>
             (renames = 1 <=>
                /\ ext # <<>>
                /\ Rendered
                /\ forceConfirm \/ ToLower(confirm) \in YesAnswers)
        /\ Cardinality(ConfirmPrompts) <= 1
        /\ (Done /\ Rendered /\ ~forceConfirm
              /\ ToLower(confirm) \notin YesAnswers) =>
             /\ err = "nil"
             /\ renames = 0
             /\ Cardinality(ConfirmPrompts) = 1)
  /\ [][renames' # renames =>
          /\ renames' = renames + 1
          /\ pc \in {"render", "confirm"}
          /\ pc' = "returned"]_vars

C9_Witness ==
  /\ renames = 1
  /\ ~forceConfirm
  /\ confirm = <<"Y", "e", "s">>
  /\ pc = "exited"

Exited == pc = "exited" /\ isTTY

ErrorPrinted == stderr # <<>> /\ stderr[Len(stderr)][1] = "error"

UsagePrinted == \E i \in 1..Len(stderr) : stderr[i][1] = "usage"

\* C10 as claimed: on a terminal the exit status is 0 with the usage printed
\* when the file argument is missing, 2 for every flag parse error, 1 with
\* the error printed for every other failure, 0 when run returns no error.
C10_ExitStatusAsClaimed ==
  Exited =>
    /\ (err = "nil" /\ filename = <<>>) => exitCode = 0 /\ UsagePrinted
    /\ err \in {"ErrHelp", "parse"} => exitCode = 2
    /\ err \notin {"nil", "ErrHelp", "parse"} => exitCode = 1 /\ ErrorPrinted
    /\ err = "nil" => exitCode = 0

\* C10, amended: on a terminal the exit status is 0 with the usage printed
\* when the file argument is missing, 2 when the flag parse error is the
\* help request (-h, -help), 1 with the error printed for every other
\* failure, the other flag parse errors (an undefined flag, a bad flag
\* value, bad flag syntax) among them, and 0 when run returns no error.
C10_ExitStatus ==
  Exited =>
    /\ (err = "nil" /\ filename = <<>>) => exitCode = 0 /\ UsagePrinted
    /\ err = "ErrHelp" => exitCode = 2
    /\ err \notin {"nil", "ErrHelp"} => exitCode = 1 /\ ErrorPrinted
    /\ err = "nil" => exitCode = 0

C10_Witness ==
  /\ Exited
  /\ err = "parse"
  /\ exitCode = 1
  /\ ErrorPrinted

\* -------------------------------------------- promptField's normalization
\* The characters of the lines whose normalization is checked on its own.
LineChars == {"a", "-", SP, "\t"}

LineTexts == UNION {[1..n -> LineChars] : n \in 0..MaxLineLen}

\* promptField's loop at the read for FXName, with one line entered. The same
\* text is the value of UCS_CREATOR_ID, which no step changes, so that the
\* state after the read still shows the text that was read.
InitNormalize ==
  /\ args = << <<"a", ".", "w">> >>
  /\ isTTY = TRUE
  /\ \E t \in LineTexts :
       /\ environ = [v \in EnvVars |->
                       IF v = "UCS_CREATOR_ID" THEN t ELSE <<>>]
       /\ stdin = t \o <<NL>>
  /\ records = CsvRecords
  /\ eof = FALSE
  /\ typed = 1
  /\ pc = "read"
  /\ forceConfirm = FALSE
  /\ filename = <<"a", ".", "w">>
  /\ ext = <<".", "w">>
  /\ f = [NoFilename EXCEPT !.CatID = <<"A">>]
  /\ origin = [n \in {"CatID"} \cup {FieldNames[i] : i \in 1..4} |->
                 IF n = "CatID" THEN "selector" ELSE "none"]
  /\ field = 1
  /\ newName = <<>>
  /\ confirm = <<>>
  /\ err = "nil"
  /\ exitCode = -1
  /\ stdout = << <<"CatID: ", <<"A">> >>, <<"FXName", <<>> >> >>
  /\ stderr = <<>>
  /\ reads = 0
  /\ selectorRuns = 1
  /\ renames = 0

SpecNormalize == InitNormalize /\ [][PromptRead]_vars

\* The text entered at the FXName prompt and the value the loop returned.
EnteredText == environ["UCS_CREATOR_ID"]
Accepted == origin["FXName"] = "prompt"

RECURSIVE skipBlanks(_)
skipBlanks(s) ==
  IF s = <<>> THEN <<>>
  ELSE IF isSpace(s[1]) THEN skipBlanks(Tail(s))
  ELSE s

\* s, read from the left: every run of whitespace before a further character
\* becomes one "-", whitespace at either end is dropped, every other
\* character is kept.
RECURSIVE hyphenated(_)
hyphenated(s) ==
  IF s = <<>> THEN <<>>
  ELSE IF isSpace(s[1])
       THEN (IF skipBlanks(s) = <<>> THEN <<>>
             ELSE <<"-">> \o hyphenated(skipBlanks(s)))
       ELSE <<s[1]>> \o hyphenated(Tail(s))

Hyphenated(s) == hyphenated(skipBlanks(s))

isLetter(c) == ~isSpace(c) /\ c # "-"
isHyphen(c) == c = "-"

DoubleHyphen(s) == \E i \in 1..(Len(s) - 1) : s[i] = "-" /\ s[i + 1] = "-"

\* A hyphen with whitespace on one side and a further character beyond it.
HyphenBesideBlank(s) ==
  \E i, j \in 1..Len(s) :
    /\ i < j
    /\ \A k \in (i + 1)..(j - 1) : isSpace(s[k])
    /\ j > i + 1
    /\ ~isSpace(s[i]) /\ ~isSpace(s[j])
    /\ s[i] = "-" \/ s[j] = "-"

\* What C11 says of every accepted line but for its hyphens.
NormalizedAsClaimed ==
  /\ f.FXName = Hyphenated(EnteredText)
  /\ \A i \in 1..Len(f.FXName) : ~isSpace(f.FXName[i])
  /\ SelectSeq(f.FXName, isLetter) = SelectSeq(EnteredText, isLetter)
  /\ Len(SelectSeq(f.FXName, isHyphen))
       = Len(SelectSeq(EnteredText, isHyphen)) + Len(Fields(EnteredText)) - 1

\* C11 as claimed: an accepted line is returned trimmed, with every run of
\* interior whitespace replaced by one "-", so that the value holds no
\* whitespace and no two adjacent hyphens that were not adjacent in the
\* line; the other characters are kept in order.
C11_NormalizedAsClaimed ==
  Accepted =>
    /\ NormalizedAsClaimed
    /\ DoubleHyphen(f.FXName) => DoubleHyphen(EnteredText)

\* C11, amended: an accepted line is returned trimmed, with every run of
\* interior whitespace replaced by one "-", so that the value holds no
\* whitespace; the other characters are kept in order; two hyphens are
\* adjacent in the value only where they were in the line or where a run of
\* whitespace stood beside a hyphen.
C11_Normalized ==
  Accepted =>
    /\ NormalizedAsClaimed
    /\ DoubleHyphen(f.FXName) =>
         DoubleHyphen(EnteredText) \/ HyphenBesideBlank(EnteredText)

C11_Witness ==
  /\ Accepted
  /\ EnteredText = <<"a", SP, "\t", "a">>
  /\ f.FXName = <<"a", "-", "a">>
  /\ pc = "enter"

\* ------------------------------------------------- ucs.Categories alone
\* The rows of the data files: six-field rows over two CatIDs and two
\* categories, a row of five fields and a row of seven.
RowKinds ==
  { <<c, <<"s">>, id, <<"b">>, <<>>, <<"y">> >> :
      c \in {<<"c">>, <<"d">>}, id \in {<<"A">>, <<"B">>} }
  \cup { << <<"c">>, <<"s">>, <<"Z">>, <<"b">>, <<"y">> >>,
         << <<"c">>, <<"s">>, <<"A">>, <<"b">>, <<>>, <<"y">>, <<"x">> >> }

DataFiles == UNION {[1..n -> RowKinds] : n \in 0..MaxRows}

\* run with standard output not a terminal, before printCategories.
InitCategories ==
  /\ args = <<>>
  /\ isTTY = FALSE
  /\ environ = [v \in EnvVars |-> <<>>]
  /\ records \in DataFiles
  /\ stdin = <<>>
  /\ eof = FALSE
  /\ typed = 0
  /\ pc = "main"
  /\ forceConfirm = FALSE
  /\ filename = <<>>
  /\ ext = <<>>
  /\ f = NoFilename
  /\ origin = [n \in {"CatID"} \cup {FieldNames[i] : i \in 1..4} |-> "none"]
  /\ field = 0
  /\ newName = <<>>
  /\ confirm = <<>>
  /\ err = "nil"
  /\ exitCode = -1
  /\ stdout = <<>>
  /\ stderr = <<>>
  /\ reads = 0
  /\ selectorRuns = 0
  /\ renames = 0

SpecCategories == InitCategories /\ [][MainRun]_vars

\* How many entries of the sequence s equal x.
Occurrences(s, x) == Cardinality({i \in 1..Len(s) : s[i] = x})

SixFieldRowsOf(rows) == {i \in 1..Len(rows) : Len(rows[i]) = 6}

Ascending(list) ==
  \A i \in 1..(Len(list) - 1) : ~StrLess(list[i + 1].CatID, list[i].CatID)

\* list holds one entry per six-field row of rows, each with the row's
\* fields, and nothing else.
OnePerSixFieldRow(list, rows) ==
  /\ Len(list) = Cardinality(SixFieldRowsOf(rows))
  /\ \A i \in SixFieldRowsOf(rows) :
       LET c == [Category |-> rows[i][1], SubCategory |-> rows[i][2],
                 CatID |-> rows[i][3], CatShort |-> rows[i][4],
                 Synonyms |-> rows[i][6]]
       IN Occurrences(list, c)
            = Cardinality({j \in SixFieldRowsOf(rows) :
                             /\ rows[j][1] = rows[i][1]
                             /\ rows[j][2] = rows[i][2]
                             /\ rows[j][3] = rows[i][3]
                             /\ rows[j][4] = rows[i][4]
                             /\ rows[j][6] = rows[i][6]})

Listed == pc = "returned" /\ err = "nil"

\* printCategories has written the list Categories returned: one line per
\* six-field row of the file, the row's fields on some line as often as the
\* row is in the file, the lines in ascending CatID order.
SortedListing ==
  /\ Ascending(Categories(records))
  /\ OnePerSixFieldRow(Categories(records), records)
  /\ stdout = categoryLines(Categories(records))
  /\ Len(stdout) = Cardinality(SixFieldRowsOf(records))
  /\ \A i \in 1..(Len(stdout) - 1) :
       ~StrLess(<<stdout[i + 1][2][1]>>, <<stdout[i][2][1]>>)

\* Whenever Categories returns no error its list is as C12 says.
SortedWhenRead == Listed => SortedListing

\* C12: Categories returns the catalog entries in ascending CatID order (of
\* two adjacent entries the earlier CatID is not greater than the later
\* one), for every data file, duplicate CatIDs included, and returns
\* exactly one entry per six-field row of the file, none added or lost by
\* the sort: every data file that can be opened and read to its end is
\* listed so, whatever the field counts of its other rows.
C12_CategoriesSorted ==
  (pc = "returned" /\ err # "csv") => (err = "nil" /\ SortedListing)

\* C13: each iteration of promptField's loop consumes exactly one line of
\* the input source and leaves every later line unread: a read that finds a
\* whole line waiting takes the source's first line and leaves all that
\* follows it for the reads to come, so that the k-th read gets the k-th
\* line and no line is lost or skipped.
C13_OneLinePerRead ==
  [][(ReadStep /\ Contains(stdin, NL)) =>
       stdin' = SubSeq(stdin, IndexByte(stdin, NL) + 1, Len(stdin))]_vars

====
